---- MODULE Spec2Model ----
(***************************************************************************)
(* Model of src/src/App.tsx: the App component's session state (listening  *)
(* flag, transcript, summary, summarizing flag, last error), the callbacks *)
(* it installs on the host's SpeechRecognition object, and its user        *)
(* actions (toggle listening, clear, summarize).                           *)
(*                                                                         *)
(* JavaScript runs one handler at a time on the event loop, so each        *)
(* handler (and the continuation of summarizeTranscript after its await)   *)
(* is one atomic action that reads the state the handlers before it left. *)
(* Text is a sequence of one-character strings; the absent error (null) is *)
(* the empty sequence of messages.                                         *)
(***************************************************************************)
EXTENDS Naturals, Sequences, FiniteSets, TLC

\* Bounds of the model.
MaxSegs == 2

VARIABLES
    recognitionRef,   \* "null" or "recognition": recognitionRef.current
    recState,         \* host recognition object: "idle", "running", "stopping"
    finalTranscript,  \* closure variable of the setup effect
    isListening,
    transcript,
    summary,
    isSummarizing,
    error,
    requests,         \* summarization requests in flight (axios.post promises)
    \* history variables, read only by the properties
    events,           \* recognition-update events delivered so far
    last,             \* the handler that ran last: its outcome and what it was given
    signal,           \* the adapter's last lifecycle signal
    summaryAtIssue    \* summary when the request in flight was issued

vars == <<recognitionRef, recState, finalTranscript, isListening, transcript,
          summary, isSummarizing, error, requests, events, last, signal,
          summaryAtIssue>>

----------------------------------------------------------------------------
\* Text

Whitespace == {" ", "\n"}

RECURSIVE TrimStart(_)
TrimStart(s) ==
    IF s # <<>> /\ Head(s) \in Whitespace THEN TrimStart(Tail(s)) ELSE s

RECURSIVE TrimEnd(_)
TrimEnd(s) ==
    IF s # <<>> /\ s[Len(s)] \in Whitespace
    THEN TrimEnd(SubSeq(s, 1, Len(s) - 1))
    ELSE s

NoTrim(s) == s

\* String.prototype.trim
Trim(s) == TrimEnd(TrimStart(s))

----------------------------------------------------------------------------
\* Messages of the error slot (null is the empty sequence)

NoError == <<>>
ErrUnsupported == <<"Your browser doesn't support speech recognition. Please try using Chrome or Edge.">>
ErrStart == <<"Couldn't start speech recognition. Please try again.">>
ErrEmpty == <<"There's no text to summarize. Please transcribe some speech first.">>
ErrSummary == <<"Failed to generate summary. Please try again.">>

\* Mutant of ErrRecognition: the cause is left out of the message.
ErrRecognitionBare(cause) == <<"Speech recognition error: ">>

ErrRecognition(cause) == <<"Speech recognition error: ", cause>>

ErrorCauses == {"no-speech", "network"}

----------------------------------------------------------------------------
\* Recognition events

SegmentTexts == {<<"h">>, <<" ", "w">>}

Segments == [isFinal : BOOLEAN, transcript : SegmentTexts]

\* the events that carry n segments from resultIndex (0-based) onward
RecognitionEvents(n) ==
    {[resultIndex |-> k, results |-> r] :
        <<k, r>> \in UNION {{k} \X [1..(k + n) -> Segments] : k \in 0..1}}

RECURSIVE TotalSegs(_)
TotalSegs(evs) ==
    IF evs = <<>> THEN 0 ELSE Len(Head(evs)) + TotalSegs(Tail(evs))

\* Mutant of ResultLoop: the separating space after a final segment is lost.
RECURSIVE ResultLoopNoSpace(_, _, _, _)
ResultLoopNoSpace(results, i, final, interim) ==
    IF i >= Len(results)
    THEN [final |-> final, interim |-> interim]
    ELSE IF results[i + 1].isFinal
         THEN ResultLoopNoSpace(results, i + 1, final \o results[i + 1].transcript, interim)
         ELSE ResultLoopNoSpace(results, i + 1, final, interim \o results[i + 1].transcript)

\* The for loop of onresult, from index i (0-based) to results.length
RECURSIVE ResultLoop(_, _, _, _)
ResultLoop(results, i, final, interim) ==
    IF i >= Len(results)
    THEN [final |-> final, interim |-> interim]
    ELSE IF results[i + 1].isFinal
         THEN ResultLoop(results, i + 1,
                         final \o results[i + 1].transcript \o <<" ">>, interim)
         ELSE ResultLoop(results, i + 1,
                         final, interim \o results[i + 1].transcript)

----------------------------------------------------------------------------
\* Summarization requests and responses

Prompt(t) == <<"Please summarize the following text:\n\n">> \o t \o <<"\n\nSummary:">>

ChoiceTexts == {<<"\n", "s", " ">>, <<"t">>}

\* status 0 is a network error (no response)
Responses ==
    {[status |-> 0, choices |-> <<>>],
     [status |-> 500, choices |-> <<>>],
     [status |-> 200, choices |-> <<>>]}
    \cup {[status |-> 200, choices |-> <<[text |-> t]>>] : t \in ChoiceTexts}
    \cup {[status |-> 200, choices |-> <<[text |-> t], [text |-> u]>>] :
            <<t, u>> \in {p \in ChoiceTexts \X ChoiceTexts : p[1] # p[2]}}

NoResponse == [status |-> 0, choices |-> <<>>]

\* what a handler leaves in the history: a completion adds the response it
\* handled, onerror the cause it was given, onresult whether it found the
\* transcript cleared while finalized text remained
Did(op) == [op |-> op, resp |-> NoResponse, cause |-> "none", afterClear |-> FALSE]

\* the try block completes: axios resolves (2xx) and choices[0].text exists
Succeeds(resp) == resp.status \in 200..299 /\ Len(resp.choices) >= 1

\* Mutant of SummaryAfter: a failed request wipes the summary.
SummaryAfterWiped(resp, cur) ==
    IF Succeeds(resp) THEN Trim(resp.choices[1].text) ELSE <<>>

\* Mutant of SummaryAfter: the completion text is stored untrimmed.
SummaryAfterUntrimmed(resp, cur) ==
    IF Succeeds(resp) THEN NoTrim(resp.choices[1].text) ELSE cur

\* setSummary(response.data.choices[0].text.trim()) in try; catch leaves it
SummaryAfter(resp, cur) ==
    IF Succeeds(resp) THEN Trim(resp.choices[1].text) ELSE cur

\* catch: setError(generic failure); the try block leaves the slot alone
ErrorAfter(resp, cur) ==
    IF Succeeds(resp) THEN cur ELSE ErrSummary

\* Mutant of SummarizingAfter: the flag is reset at the end of try, not in finally.
SummarizingAfterTryOnly(resp) == ~Succeeds(resp)

\* finally: setIsSummarizing(false)
SummarizingAfter(resp) == FALSE

\* Mutant of SummarizeDisabled: the button is never disabled.
SummarizeNeverDisabled == FALSE

\* disabled={isSummarizing} on the Summarize button
SummarizeDisabled == isSummarizing

\* Mutant of TranscriptIsEmpty: the guard is missing.
TranscriptNeverEmpty(t) == FALSE

\* !transcript
TranscriptIsEmpty(t) == t = <<>>

----------------------------------------------------------------------------
\* The host's recognition object

\* start() throws on an object that is already started; the host may also
\* refuse to start an idle one
StartOutcomes(state) ==
    IF state = "idle" THEN {"ok", "throws"} ELSE {"throws"}

\* stop() on a running object ends capture; the end signal follows later
StateAfterStop(state) ==
    IF state = "running" THEN "stopping" ELSE state

\* the segments of an event from resultIndex onward
Delivered(ev) == SubSeq(ev.results, ev.resultIndex + 1, Len(ev.results))

----------------------------------------------------------------------------
\* State after mount

\* the setup effect: a recognition object if the host has the capability
SetupRef(capable) == IF capable THEN "recognition" ELSE "null"

\* the setup effect's else branch
SetupError(capable) == IF capable THEN NoError ELSE ErrUnsupported

Init ==
    /\ \E capable \in BOOLEAN :
          /\ recognitionRef = SetupRef(capable)
          /\ error = SetupError(capable)
    /\ recState = "idle"
    /\ finalTranscript = <<>>
    /\ isListening = FALSE
    /\ transcript = <<>>
    /\ summary = <<>>
    /\ isSummarizing = FALSE
    /\ requests = <<>>
    /\ events = <<>>
    /\ last = Did("mount")
    /\ signal = "none"
    /\ summaryAtIssue = <<>>

----------------------------------------------------------------------------
\* Recognition callbacks

\* Mutant of OnResult: an arriving result marks the session as listening.
OnResultListens(ev) ==
    /\ recognitionRef = "recognition"
    /\ recState \in {"running", "stopping"}
    /\ TotalSegs(events) + Len(Delivered(ev)) <= MaxSegs
    /\ LET r == ResultLoop(ev.results, ev.resultIndex, finalTranscript, <<>>)
       IN  /\ finalTranscript' = r.final
           /\ transcript' = r.final \o r.interim
    /\ isListening' = TRUE
    /\ events' = Append(events, Delivered(ev))
    /\ last' = [Did("onresult") EXCEPT
                   !.afterClear = (transcript = <<>> /\ finalTranscript # <<>>)]
    /\ UNCHANGED <<recognitionRef, recState, summary, isSummarizing,
                   error, requests, signal, summaryAtIssue>>

OnResult(ev) ==
    /\ recognitionRef = "recognition"
    /\ recState \in {"running", "stopping"}
    /\ TotalSegs(events) + Len(Delivered(ev)) <= MaxSegs
    /\ LET r == ResultLoop(ev.results, ev.resultIndex, finalTranscript, <<>>)
       IN  /\ finalTranscript' = r.final
           /\ transcript' = r.final \o r.interim
    /\ events' = Append(events, Delivered(ev))
    /\ last' = [Did("onresult") EXCEPT
                   !.afterClear = (transcript = <<>> /\ finalTranscript # <<>>)]
    /\ UNCHANGED <<recognitionRef, recState, isListening, summary, isSummarizing,
                   error, requests, signal, summaryAtIssue>>

OnError(cause) ==
    /\ recognitionRef = "recognition"
    /\ recState \in {"running", "stopping"}
    /\ error' = ErrRecognition(cause)
    /\ isListening' = FALSE
    /\ recState' = "stopping"
    /\ signal' = "error"
    /\ last' = [Did("onerror") EXCEPT !.cause = cause]
    /\ UNCHANGED <<recognitionRef, finalTranscript, transcript, summary,
                   isSummarizing, requests, events, summaryAtIssue>>

\* Mutant of OnEnd: the end of capture also resets the summarizing flag.
OnEndResetsSummarizing ==
    /\ recognitionRef = "recognition"
    /\ recState \in {"running", "stopping"}
    /\ isListening' = FALSE
    /\ isSummarizing' = FALSE
    /\ recState' = "idle"
    /\ signal' = "end"
    /\ last' = Did("onend")
    /\ UNCHANGED <<recognitionRef, finalTranscript, transcript, summary,
                   error, requests, events, summaryAtIssue>>

OnEnd ==
    /\ recognitionRef = "recognition"
    /\ recState \in {"running", "stopping"}
    /\ isListening' = FALSE
    /\ recState' = "idle"
    /\ signal' = "end"
    /\ last' = Did("onend")
    /\ UNCHANGED <<recognitionRef, finalTranscript, transcript, summary,
                   isSummarizing, error, requests, events,
                   summaryAtIssue>>

----------------------------------------------------------------------------
\* User actions

\* Mutant of AfterStart: setIsListening(true) runs before start() is tried.
AfterStartEager(outcome) ==
    IF outcome = "ok"
    THEN [isListening |-> TRUE, error |-> NoError]
    ELSE [isListening |-> TRUE, error |-> ErrStart]

\* the try/catch around start()
AfterStart(outcome) ==
    IF outcome = "ok"
    THEN [isListening |-> TRUE, error |-> NoError]
    ELSE [isListening |-> isListening, error |-> ErrStart]

ToggleListening ==
    /\ IF isListening
       THEN \* recognitionRef.current?.stop()
            /\ recState' = IF recognitionRef = "recognition"
                           THEN StateAfterStop(recState) ELSE recState
            /\ last' = Did("toggle_stop")
            /\ UNCHANGED <<isListening, error, signal>>
       ELSE IF recognitionRef = "null"
       THEN \* ?. skips start(); the try block runs to its end
            /\ isListening' = AfterStart("ok").isListening
            /\ error' = AfterStart("ok").error
            /\ last' = Did("toggle_no_adapter")
            /\ UNCHANGED <<recState, signal>>
       ELSE \E outcome \in StartOutcomes(recState) :
            /\ isListening' = AfterStart(outcome).isListening
            /\ error' = AfterStart(outcome).error
            /\ recState' = IF outcome = "ok" THEN "running" ELSE recState
            /\ signal' = IF outcome = "ok" THEN "started" ELSE signal
            /\ last' = Did(IF outcome = "throws" THEN "toggle_start_threw"
                           ELSE IF error = ErrStart THEN "toggle_start_retried"
                           ELSE "toggle_started")
    /\ UNCHANGED <<recognitionRef, finalTranscript, transcript, summary,
                   isSummarizing, requests, events, summaryAtIssue>>

\* Mutant of ClearTranscript: clearing also drops the listening flag.
ClearTranscriptStops ==
    /\ transcript' = <<>>
    /\ summary' = <<>>
    /\ isListening' = FALSE
    /\ last' = Did("clear")
    /\ UNCHANGED <<recognitionRef, recState, finalTranscript, isSummarizing,
                   error, requests, events, signal, summaryAtIssue>>

\* Mutant of ClearTranscript: clearing also resets the finalized text.
ClearTranscriptResets ==
    /\ transcript' = <<>>
    /\ summary' = <<>>
    /\ finalTranscript' = <<>>
    /\ last' = Did("clear")
    /\ UNCHANGED <<recognitionRef, recState, isListening, isSummarizing,
                   error, requests, events, signal, summaryAtIssue>>

\* Mutant of ClearTranscript: clearing also abandons the request in flight.
ClearTranscriptCancels ==
    /\ transcript' = <<>>
    /\ summary' = <<>>
    /\ requests' = <<>>
    /\ isSummarizing' = FALSE
    /\ last' = Did("clear")
    /\ UNCHANGED <<recognitionRef, recState, finalTranscript, isListening,
                   error, events, signal, summaryAtIssue>>

ClearTranscript ==
    /\ transcript' = <<>>
    /\ summary' = <<>>
    /\ last' = Did("clear")
    /\ UNCHANGED <<recognitionRef, recState, finalTranscript, isListening,
                   isSummarizing, error, requests, events, signal,
                   summaryAtIssue>>

\* summarizeTranscript up to its await
SummarizeTranscript ==
    /\ ~SummarizeDisabled
    /\ IF TranscriptIsEmpty(transcript)
       THEN /\ error' = ErrEmpty
            /\ last' = Did("summarize_empty")
            /\ UNCHANGED <<isSummarizing, requests, summaryAtIssue>>
       ELSE /\ isSummarizing' = TRUE
            /\ error' = NoError
            /\ requests' = Append(requests, [prompt |-> Prompt(transcript)])
            /\ summaryAtIssue' = summary
            /\ last' = Did("summarize_issued")
    /\ UNCHANGED <<recognitionRef, recState, finalTranscript, isListening,
                   transcript, summary, events, signal>>

\* summarizeTranscript after its await: the oldest request settles with resp
SummarizeSettles(resp) ==
    /\ requests # <<>>
    /\ requests' = Tail(requests)
    /\ summary' = SummaryAfter(resp, summary)
    /\ error' = ErrorAfter(resp, error)
    /\ isSummarizing' = SummarizingAfter(resp)
    /\ summaryAtIssue' = <<>>
    /\ last' = [Did(IF Succeeds(resp) THEN "summarize_ok" ELSE "summarize_failed")
                   EXCEPT !.resp = resp]
    /\ UNCHANGED <<recognitionRef, recState, finalTranscript, isListening,
                   transcript, events, signal>>

----------------------------------------------------------------------------

Recognized ==
    \E n \in 1..(MaxSegs - TotalSegs(events)) :
        \E ev \in RecognitionEvents(n) : OnResult(ev)

RecognitionFails == \E cause \in ErrorCauses : OnError(cause)

Settles == \E resp \in Responses : SummarizeSettles(resp)

Next ==
    \/ Recognized
    \/ RecognitionFails
    \/ OnEnd
    \/ ToggleListening
    \/ ClearTranscript
    \/ SummarizeTranscript
    \/ Settles

Spec == Init /\ [][Next]_vars

\* the HTTP call eventually resolves or rejects
FairSpec == Spec /\ WF_vars(Settles)

\* the end signal of a recognition object that was stopped or has failed
EndAfterStop == recState = "stopping" /\ OnEnd

\* the host eventually delivers the end signal after stop()
StopFairSpec == Spec /\ WF_vars(EndAfterStop)

TypeOK ==
    /\ recognitionRef \in {"null", "recognition"}
    /\ recState \in {"idle", "running", "stopping"}
    /\ isListening \in BOOLEAN
    /\ isSummarizing \in BOOLEAN
    /\ TotalSegs(events) <= MaxSegs

----------------------------------------------------------------------------
\* Properties

Issuing == {"summarize_issued", "summarize_empty"}

Completions == {"summarize_ok", "summarize_failed"}

RECURSIVE FinalText(_)
FinalText(segs) ==
    IF segs = <<>> THEN <<>>
    ELSE (IF Head(segs).isFinal THEN Head(segs).transcript \o <<" ">> ELSE <<>>)
         \o FinalText(Tail(segs))

RECURSIVE InterimText(_)
InterimText(segs) ==
    IF segs = <<>> THEN <<>>
    ELSE (IF Head(segs).isFinal THEN <<>> ELSE Head(segs).transcript)
         \o InterimText(Tail(segs))

RECURSIVE AllFinalText(_)
AllFinalText(evs) ==
    IF evs = <<>> THEN <<>> ELSE FinalText(Head(evs)) \o AllFinalText(Tail(evs))

\* C1: after every recognition-update event the transcript is the text of
\* every final segment delivered so far, in delivery order and each followed
\* by one space, followed by the interim segments of the latest event only.
C1_TranscriptIsFold ==
    last.op = "onresult" =>
        transcript = AllFinalText(events) \o InterimText(events[Len(events)])

\* [final "h"] then [interim " w"] displays "h  w"
C1_Witness ==
    /\ last.op = "onresult"
    /\ events = << <<[isFinal |-> TRUE, transcript |-> <<"h">>]>>,
                   <<[isFinal |-> FALSE, transcript |-> <<" ", "w">>]>> >>
    /\ transcript = <<"h", " ", " ", "w">>

\* C2: without a recognition capability a toggle never sets listening and
\* leaves the capability-unsupported message in the error slot.
C2_NoCapabilityNeverListens ==
    (recognitionRef = "null" /\ last.op \in {"toggle_no_adapter", "toggle_stop"}) =>
        (~isListening /\ error = ErrUnsupported)

\* C3: at most one summarization request is in flight, summarizing is true
\* exactly when one is, and summarizeTranscript never runs while summarizing.
C3_OneRequestInFlight ==
    /\ [](Len(requests) <= 1 /\ (isSummarizing <=> Len(requests) = 1))
    /\ [][last'.op \in Issuing => ~isSummarizing]_vars

\* a request is in flight while recognition results keep arriving
C3_Witness ==
    /\ isSummarizing
    /\ Len(requests) = 1
    /\ last.op = "onresult"
    /\ isListening

\* C4: summarizeTranscript on an empty transcript issues no request, sets
\* the empty-input message, keeps summarizing false and summary unchanged.
C4_EmptyTranscriptRejected ==
    [][(transcript = <<>> /\ last'.op \in Issuing) =>
          /\ last'.op = "summarize_empty"
          /\ requests' = <<>> /\ requests = <<>>
          /\ error' = ErrEmpty
          /\ ~isSummarizing'
          /\ summary' = summary]_vars

C4_Witness ==
    /\ last.op = "summarize_empty"
    /\ transcript = <<>>
    /\ summary # <<>>
    /\ error = ErrEmpty

\* C5 as stated: after a failed request summary is what it was before the
\* request was issued, and the error slot holds the generic failure message.
C5_SummaryAsBeforeRequest ==
    [][last'.op = "summarize_failed" =>
          (summary' = summaryAtIssue /\ error' = ErrSummary)]_vars

\* C5 amended: handling a failed request leaves summary as it was just before
\* (its value from before the request, or empty after a Clear in between) and
\* sets the error slot to the generic failure message.
C5_FailureKeepsSummary ==
    [][last'.op = "summarize_failed" =>
          /\ summary' = summary
          /\ summary' \in {summaryAtIssue, <<>>}
          /\ error' = ErrSummary]_vars

\* an HTTP 500 with a summary on display
C5_Witness ==
    /\ last.op = "summarize_failed"
    /\ last.resp.status = 500
    /\ summary # <<>>
    /\ error = ErrSummary

\* C6: clearTranscript empties transcript and summary and changes neither
\* listening, summarizing nor the error slot.
C6_ClearFrame ==
    [][last'.op = "clear" =>
          /\ transcript' = <<>>
          /\ summary' = <<>>
          /\ isListening' = isListening
          /\ isSummarizing' = isSummarizing
          /\ error' = error]_vars

\* cleared while listening and summarizing
C6_Witness ==
    /\ last.op = "clear"
    /\ isListening
    /\ isSummarizing
    /\ transcript = <<>>
    /\ finalTranscript # <<>>

\* C7: listening is true only if start() succeeded on an existing adapter
\* and the adapter has signalled neither end nor error since.
C7_ListeningFollowsAdapter ==
    isListening => (recognitionRef = "recognition" /\ signal = "started")

\* C8 as stated: after a successful request summary is the trimmed text of
\* the first choice and the error slot is clear.
C8_SuccessLeavesErrorClear ==
    last.op = "summarize_ok" =>
        /\ summary = Trim(last.resp.choices[1].text)
        /\ error = NoError

\* C8 amended: a successful request sets summary to the trimmed text of the
\* first choice and leaves the error slot as it was: clear, or the error a
\* recognition callback or a failed start reported while it was in flight.
C8_SuccessSetsTrimmedSummary ==
    [][last'.op = "summarize_ok" =>
          /\ summary' = Trim(last'.resp.choices[1].text)
          /\ error' = error
          /\ error' \in {NoError, ErrStart} \cup {ErrRecognition(c) : c \in ErrorCauses}]_vars

\* the first of two choices, with its surrounding whitespace removed
C8_Witness ==
    /\ last.op = "summarize_ok"
    /\ Len(last.resp.choices) = 2
    /\ last.resp.choices[1].text = <<"\n", "s", " ">>
    /\ summary = <<"s">>
    /\ error = NoError

\* C9: every request ends, on success and on failure, with summarizing
\* false and nothing re-issued, so summarizing never stays true.
C9_RequestCompletes ==
    /\ isSummarizing ~> ~isSummarizing
    /\ [](last.op \in Completions => (~isSummarizing /\ requests = <<>>))

\* after a failure the Summarize action is available again
C9_Witness ==
    /\ last.op = "summarize_failed"
    /\ ~isSummarizing
    /\ ~SummarizeDisabled
    /\ transcript # <<>>

\* C10: a toggle whose start() throws leaves listening false and sets the
\* start-failure message; a toggle whose start() returns sets listening and
\* clears the error slot.
C10_StartFailureIsTransient ==
    /\ last.op = "toggle_start_threw" => (~isListening /\ error = ErrStart)
    /\ last.op \in {"toggle_started", "toggle_start_retried"} =>
          (isListening /\ error = NoError)

\* a start that succeeded on the toggle after one that threw
C10_Witness ==
    /\ last.op = "toggle_start_retried"
    /\ isListening
    /\ error = NoError

Toggles ==
    {"toggle_stop", "toggle_no_adapter", "toggle_started",
     "toggle_start_retried", "toggle_start_threw"}

\* C11: onerror puts the message with its cause in the error slot, whatever
\* was there, and sets listening false; the onend that follows leaves
\* listening false and the error slot as it was.
C11_ErrorStopsListening ==
    /\ [][last'.op = "onerror" =>
            /\ error' = <<"Speech recognition error: ", last'.cause>>
            /\ last'.cause \in ErrorCauses
            /\ ~isListening']_vars
    /\ [][last'.op = "onend" => (~isListening' /\ error' = error)]_vars
    /\ [][(signal = "error" /\ last'.op = "onend") =>
            (~isListening /\ ~isListening')]_vars

\* the end signal after a network error, the message still in the slot
C11_Witness ==
    /\ last.op = "onend"
    /\ signal = "end"
    /\ error = <<"Speech recognition error: ", "network">>
    /\ ~isListening

\* C12: a toggle while listening changes nothing but the adapter (stop());
\* listening becomes false with onend, and with the end signal delivered
\* after stop() every user stop leads to listening being false.
C12_StopEndsListening ==
    /\ [][last'.op = "toggle_stop" => isListening' = isListening]_vars
    /\ [][last'.op = "onend" => ~isListening']_vars
    /\ (last.op = "toggle_stop") ~> ~isListening

\* C13: listening turns from false to true only in a toggleListening step.
C13_OnlyToggleStartsListening ==
    [][(~isListening /\ isListening') => last'.op \in Toggles]_vars

\* listening again, started by a toggle after an earlier session's results
C13_Witness ==
    /\ isListening
    /\ last.op = "toggle_started"
    /\ signal = "started"
    /\ events # <<>>

IsPrefix(a, b) == Len(a) <= Len(b) /\ SubSeq(b, 1, Len(a)) = a

\* C14: clearTranscript keeps the finalized text, so the recognition event
\* after a Clear displays everything finalized since mount, the text from
\* before the Clear included, followed by that event's interim text.
C14_ClearedTextReappears ==
    /\ [][last'.op = "clear" => finalTranscript' = finalTranscript]_vars
    /\ [][(last.op = "clear" /\ last'.op = "onresult") =>
            transcript' = AllFinalText(events') \o InterimText(events'[Len(events')])]_vars
    /\ [][(last'.op = "onresult" /\ last'.afterClear) =>
            /\ transcript = <<>>
            /\ finalTranscript # <<>>
            /\ IsPrefix(finalTranscript, transcript')
            /\ finalTranscript = AllFinalText(events)]_vars

\* "h" finalized, cleared, then interim " w": "h  w" is displayed
C14_Witness ==
    /\ last.op = "onresult"
    /\ last.afterClear
    /\ events = << <<[isFinal |-> TRUE, transcript |-> <<"h">>]>>,
                   <<[isFinal |-> FALSE, transcript |-> <<" ", "w">>]>> >>
    /\ transcript = <<"h", " ", " ", "w">>

\* C15: clearTranscript leaves the request in flight alone; the request
\* carries the transcript of the moment it was triggered, and its success
\* sets summary to the trimmed result even over a cleared transcript.
C15_ClearKeepsRequest ==
    /\ [][last'.op = "clear" =>
            (requests' = requests /\ isSummarizing' = isSummarizing)]_vars
    /\ [][last'.op = "summarize_issued" =>
            requests' = <<[prompt |-> Prompt(transcript)]>>]_vars
    /\ [][(transcript = <<>> /\ last'.op = "summarize_ok") =>
            /\ summary' = Trim(last'.resp.choices[1].text)
            /\ summary' # <<>>
            /\ transcript' = <<>>]_vars

\* a summary over an empty transcript
C15_Witness ==
    /\ last.op = "summarize_ok"
    /\ transcript = <<>>
    /\ summary # <<>>
    /\ finalTranscript # <<>>

RecognitionOps == {"onresult", "onerror", "onend"} \cup Toggles

SummarizationOps == Issuing \cup Completions

\* C16: recognition callbacks and toggleListening change neither summary
\* nor summarizing; the summarization trigger and completion change neither
\* transcript nor listening; onresult changes only the transcript.
C16_FlowsShareOnlyError ==
    /\ [][last'.op \in RecognitionOps =>
            (summary' = summary /\ isSummarizing' = isSummarizing
             /\ requests' = requests)]_vars
    /\ [][last'.op \in SummarizationOps =>
            (transcript' = transcript /\ isListening' = isListening
             /\ finalTranscript' = finalTranscript)]_vars
    /\ [][last'.op = "onresult" =>
            (isListening' = isListening /\ error' = error)]_vars

\* a result applied while listening is false and a request is in flight
C16_Witness ==
    /\ last.op = "onresult"
    /\ ~isListening
    /\ isSummarizing
    /\ transcript # <<>>
    /\ transcript # finalTranscript

====
